---- MODULE Spec2Model ----
(***************************************************************************)
(* Flocking simulation of kevroy314/pygame-demo: find_neighbors and        *)
(* update_locations of flocking.py, driven by the frame loop of            *)
(* pygame-demo.py.                                                         *)
(*                                                                         *)
(* Numbers.  The program computes on numpy float64 values.  The model      *)
(* keeps every real quantity as an integer count of 1/SCALE units (a       *)
(* pixel coordinate of 10.0 is 10000, a heading of 1 rad is 1000) and      *)
(* rounds every product and quotient to the nearest unit, as a float       *)
(* operation rounds to the nearest representable value.  The three IEEE    *)
(* special values a float64 division by zero produces (numpy emits a       *)
(* RuntimeWarning and returns them, it raises nothing) are NaN, PosInf     *)
(* and NegInf.                                                             *)
(***************************************************************************)
EXTENDS Integers, Sequences, FiniteSets

SCALE == 1000

\* float64 special values, kept outside the range of every finite value
PosInf == 2 ^ 30
NegInf == 0 - PosInf
NaN == PosInf + 1

IsNaN(a) == a = NaN
IsFinite(a) == a # NaN /\ a # PosInf /\ a # NegInf

Abs(a) == IF a < 0 THEN 0 - a ELSE a

\* a / b on integers, rounded to nearest (b # 0)
RDiv(a, b) ==
    IF b > 0 THEN (2 * a + b) \div (2 * b)
    ELSE (2 * (0 - a) + (0 - b)) \div (2 * (0 - b))

\* float64 +, -, *, / on the fixed-point values (finite operands stay finite
\* in this program except through a division by zero)
FAdd(a, b) == IF IsNaN(a) \/ IsNaN(b) THEN NaN ELSE a + b
FSub(a, b) == IF IsNaN(a) \/ IsNaN(b) THEN NaN ELSE a - b
FMul(a, b) == IF IsNaN(a) \/ IsNaN(b) THEN NaN ELSE RDiv(a * b, SCALE)
FDiv(a, b) ==
    IF IsNaN(a) \/ IsNaN(b) THEN NaN
    ELSE IF b = 0 THEN (IF a = 0 THEN NaN ELSE IF a > 0 THEN PosInf ELSE NegInf)
    ELSE RDiv(a * SCALE, b)

\* float64 comparisons: every ordered comparison with NaN is False, != is True
FLess(a, b) == ~IsNaN(a) /\ ~IsNaN(b) /\ a < b
FNeq(a, b) == IsNaN(a) \/ IsNaN(b) \/ a # b

RECURSIVE ISqrtIter(_, _, _)
ISqrtIter(n, lo, hi) ==
    IF lo >= hi THEN lo
    ELSE LET mid == (lo + hi + 1) \div 2
         IN IF mid * mid <= n THEN ISqrtIter(n, mid, hi) ELSE ISqrtIter(n, lo, mid - 1)

\* largest r with r * r <= n
ISqrt(n) == ISqrtIter(n, 0, 46340)

\* sqrt(a^2 + b^2): np.sqrt(np.power(.,2) + np.power(.,2)) and np.linalg.norm
Hypot(a, b) == IF IsNaN(a) \/ IsNaN(b) THEN NaN ELSE ISqrt(a * a + b * b)

Pi == 3142
TwoPi == 6283
HalfPi == 1571

\* cos on [0, pi/2] by its power series
CosSeries(x) ==
    LET x2 == RDiv(x * x, SCALE)
        t4 == SCALE - RDiv(x2, 90)
        t3 == SCALE - RDiv(RDiv(x2 * t4, SCALE), 56)
        t2 == SCALE - RDiv(RDiv(x2 * t3, SCALE), 30)
        t1 == SCALE - RDiv(RDiv(x2 * t2, SCALE), 12)
    IN SCALE - RDiv(RDiv(x2 * t1, SCALE), 2)

\* sin on [0, pi/2] by its power series
SinSeries(x) ==
    LET x2 == RDiv(x * x, SCALE)
        t4 == SCALE - RDiv(x2, 110)
        t3 == SCALE - RDiv(RDiv(x2 * t4, SCALE), 72)
        t2 == SCALE - RDiv(RDiv(x2 * t3, SCALE), 42)
        t1 == SCALE - RDiv(RDiv(x2 * t2, SCALE), 20)
        t0 == SCALE - RDiv(RDiv(x2 * t1, SCALE), 6)
    IN RDiv(x * t0, SCALE)

\* np.cos
Cos(o) ==
    IF ~IsFinite(o) THEN NaN
    ELSE LET r == Abs(o) % TwoPi
             a == IF r > Pi THEN TwoPi - r ELSE r
         IN IF a > HalfPi THEN 0 - CosSeries(Pi - a) ELSE CosSeries(a)

\* np.sin
Sin(o) ==
    IF ~IsFinite(o) THEN NaN
    ELSE LET r == o % TwoPi
             s == IF r > Pi THEN -1 ELSE 1
             a == IF r > Pi THEN r - Pi ELSE r
             b == IF a > HalfPi THEN Pi - a ELSE a
         IN s * SinSeries(b)

RECURSIVE TanhFrac(_, _, _)
TanhFrac(z2, k, depth) ==
    IF depth = 0 THEN (2 * k + 1) * SCALE
    ELSE (2 * k + 1) * SCALE + RDiv(z2 * SCALE, TanhFrac(z2, k + 1, depth - 1))

\* np.tanh: its continued fraction z / (1 + z^2 / (3 + z^2 / (5 + ...))),
\* saturated where tanh is within half a unit of +-1
Tanh(z) ==
    IF IsNaN(z) THEN NaN
    ELSE IF z = PosInf \/ z >= 5 * SCALE THEN SCALE
    ELSE IF z = NegInf \/ z <= 0 - 5 * SCALE THEN 0 - SCALE
    ELSE RDiv(z * SCALE, TanhFrac(RDiv(z * z, SCALE), 0, 14))

\* float64 % with a positive divisor (canvas_size is a pair of positive ints)
FMod(a, m) == IF ~IsFinite(a) THEN NaN ELSE a % m


(***************************************************************************)
(* Inputs.  The driver fixes the hyperparameters once and draws the        *)
(* population at random; the model draws both from the sets below.         *)
(***************************************************************************)
MaxN == 3
MaxFrames == 2

\* <<x, y, o>>: pixel coordinates (np.random.randint) and a heading in
\* 1/SCALE rad (np.random.random * 2 * pi)
AgentChoices ==
    { <<20, 10, 0>>, <<15, 10, 0>>, <<10, 10, 2500>>, <<20, 10, 1000>>,
      <<28, 18, 1000>>, <<15, 3, 4000>> }

\* (alignment, cohesion, separation) as the caller may pass them
WeightChoices ==
    { <<1000, 100, 100>>, <<1000, 1000, 1000>>, <<0, 1000, 0>>, <<0, 2000, 0>>,
      <<1000, 0 - 1000, 1000>>, <<1000, 1000>>, <<1000, 1000, 1000, 1000>> }

\* canvas_size; squared coordinate differences must stay below 2^31
SizeChoices == { <<30, 20>>, <<29, 19>> }
SpeedChoices == { 5 * SCALE }
RadiusChoices == { 10 * SCALE }

\* the sequences of at most n distinct elements of S
RECURSIVE SeqsUpTo(_, _)
SeqsUpTo(S, n) ==
    IF n = 0 THEN { <<>> }
    ELSE LET shorter == SeqsUpTo(S, n - 1)
         IN shorter \cup
            UNION { { Append(s, e) : e \in S \ { s[k] : k \in 1..Len(s) } } :
                    s \in { t \in shorter : Len(t) = n - 1 } }

Populations == SeqsUpTo(AgentChoices, MaxN) \ { <<>> }

VARIABLES
    xs, ys, os,          \* the population: x, y (1/SCALE pixel) and heading (1/SCALE rad)
    size,                \* canvas [width, height] in pixels
    speed,               \* pixels per step
    interaction_radius,
    weights,             \* the tuple handed to update_locations
    done,                \* the driver's loop flag
    err,                 \* "none", or the exception that ended the program
    warnings,            \* RuntimeWarnings numpy emitted in the last update_locations
    frame,               \* number of completed frames
    vectors,             \* the displacement vector of each element in the last step
    out                  \* per-agent results of a step in progress (SpecOrder only)

vars == <<xs, ys, os, size, speed, interaction_radius, weights, done, err, warnings, frame, vectors, out>>

N == Len(xs)

(***************************************************************************)
(* flocking.py                                                             *)
(***************************************************************************)
RECURSIVE SumSeq(_)
SumSeq(s) == IF s = <<>> THEN 0 ELSE Head(s) + SumSeq(Tail(s))

\* np.mean of a non-empty array
Mean(s) == RDiv(SumSeq(s), Len(s))

RECURSIVE NeighborsFrom(_, _, _, _, _, _)
NeighborsFrom(i, idx, pxs, pys, pos, distance) ==
    IF i > Len(pxs) THEN << <<>>, <<>>, <<>> >>
    ELSE LET rest == NeighborsFrom(i + 1, idx, pxs, pys, pos, distance)
         IN IF i = idx THEN rest
            ELSE IF FLess(Hypot(FSub(pxs[i], pxs[idx]), FSub(pys[i], pys[idx])), distance)
                 THEN << <<pxs[i]>> \o rest[1], <<pys[i]>> \o rest[2], <<pos[i]>> \o rest[3] >>
                 ELSE rest

RECURSIVE NeighborsWithin(_, _, _, _, _, _)
NeighborsWithin(i, idx, pxs, pys, pos, distance) ==
    IF i > Len(pxs) THEN << <<>>, <<>>, <<>> >>
    ELSE LET rest == NeighborsWithin(i + 1, idx, pxs, pys, pos, distance)
             d == Hypot(FSub(pxs[i], pxs[idx]), FSub(pys[i], pys[idx]))
         IN IF i = idx THEN rest
            ELSE IF ~IsNaN(d) /\ d <= distance
                 THEN << <<pxs[i]>> \o rest[1], <<pys[i]>> \o rest[2], <<pos[i]>> \o rest[3] >>
                 ELSE rest

\* find_neighbors with the distance test written <= instead of <
find_neighbors_inclusive(idx, pxs, pys, pos, distance) ==
    NeighborsWithin(1, idx, pxs, pys, pos, distance)

\* find_neighbors(idx, xs, ys, os, distance) -> (adjacent_xs, adjacent_ys, adjacent_os)
find_neighbors(idx, pxs, pys, pos, distance) == NeighborsFrom(1, idx, pxs, pys, pos, distance)

\* vector = [cos(os[i]), sin(os[i])]
OrientationVector(o) == <<Cos(o), Sin(o)>>

\* alignment = np.mean([[cos(o), sin(o)] for o in nos], axis=0)
Alignment(nos) ==
    << Mean([k \in 1..Len(nos) |-> Cos(nos[k])]), Mean([k \in 1..Len(nos) |-> Sin(nos[k])]) >>

\* cohesion = [mx - xs[i], my - ys[i]]
Cohesion(nxs, nys, x, y) == << Mean(nxs) - x, Mean(nys) - y >>

\* the separation with the y-differences in its second component
SeparationXY(nxs, nys, x, y) ==
    << 0 - SumSeq([k \in 1..Len(nxs) |-> nxs[k] - x]),
       0 - SumSeq([k \in 1..Len(nys) |-> nys[k] - y]) >>

\* separation = [-1*np.sum(nxs - xs[i]), -1*np.sum(nxs - xs[i])]
Separation(nxs, nys, x, y) ==
    LET s == 0 - SumSeq([k \in 1..Len(nxs) |-> nxs[k] - x])
    IN << s, s >>

\* if mag != 0.0: vector += force/mag * weight
AddForce(vector, force, weight) ==
    LET mag == Hypot(force[1], force[2])
    IN IF mag # 0
       THEN << FAdd(vector[1], FMul(FDiv(force[1], mag), weight)),
               FAdd(vector[2], FMul(FDiv(force[2], mag), weight)) >>
       ELSE vector

\* the orientation vector with the three weighted forces added (lines 61-77)
CombinedVector(i, pxs, pys, pos, distance, w) ==
    LET nb == find_neighbors(i, pxs, pys, pos, distance)
        v0 == OrientationVector(pos[i])
    IN IF Len(nb[1]) # 0
       THEN LET v1 == AddForce(v0, Alignment(nb[3]), w[1])
                v2 == AddForce(v1, Cohesion(nb[1], nb[2], pxs[i], pys[i]), w[2])
            IN AddForce(v2, Separation(nb[1], nb[2], pxs[i], pys[i]), w[3])
       ELSE v0

\* vector = vector/np.linalg.norm(vector) * speed
Displacement(vector, spd) ==
    LET norm == Hypot(vector[1], vector[2])
    IN << FMul(FDiv(vector[1], norm), spd), FMul(FDiv(vector[2], norm), spd) >>

\* the angle with the sign of x kept when y is zero
NewAngleSigned(vector) ==
    IF FNeq(vector[2], 0) THEN Tanh(FDiv(vector[2], vector[1]))
    ELSE IF FLess(vector[1], 0) THEN Pi ELSE 0

\* angle = np.tanh(vector[1]/vector[0]) if vector[1] != 0 else 0
NewAngle(vector) == IF FNeq(vector[2], 0) THEN Tanh(FDiv(vector[2], vector[1])) ELSE 0

\* the RuntimeWarnings of the two unguarded divisions of one iteration
DivisionWarnings(vector, d) ==
    (IF IsFinite(vector[1]) /\ IsFinite(vector[2]) /\ Hypot(vector[1], vector[2]) = 0
     THEN {"invalid value encountered in divide"} ELSE {})
    \cup
    (IF IsFinite(d[1]) /\ IsFinite(d[2]) /\ d[2] # 0 /\ d[1] = 0
     THEN {"divide by zero encountered in divide"} ELSE {})

\* the new position and angle from the combined vector (lines 78-83), and
\* the warnings emitted on the way: <<new x, new y, new o, warnings, vector>>
Integrate(vector, x, y, canvas_size, spd) ==
    LET d == Displacement(vector, spd)
    IN << FMod(FAdd(d[1], x), canvas_size[1] * SCALE),
          FMod(FAdd(d[2], y), canvas_size[2] * SCALE),
          NewAngle(d),
          DivisionWarnings(vector, d),
          d >>

\* one iteration of the loop over the elements
AgentStep(i, pxs, pys, pos, canvas_size, spd, distance, w) ==
    Integrate(CombinedVector(i, pxs, pys, pos, distance, w), pxs[i], pys[i], canvas_size, spd)

\* the loop over the elements: iteration i appends element i of each list
Collect(res) ==
    << [i \in 1..Len(res) |-> res[i][1]],
       [i \in 1..Len(res) |-> res[i][2]],
       [i \in 1..Len(res) |-> res[i][3]],
       UNION { res[i][4] : i \in 1..Len(res) },
       [i \in 1..Len(res) |-> res[i][5]] >>

\* update_locations with the new lists built by prepending
update_locations_reversed(pxs, pys, pos, canvas_size, spd, distance, w) ==
    Collect([i \in 1..Len(pxs) |->
               AgentStep(Len(pxs) + 1 - i, pxs, pys, pos, canvas_size, spd, distance, w)])

\* update_locations(...) -> (new_xs, new_ys, new_os), past its assert; the
\* fourth component is the set of RuntimeWarnings the call emitted, the
\* fifth the value of the local `vector` of each iteration at line 78
update_locations(pxs, pys, pos, canvas_size, spd, distance, w) ==
    Collect([i \in 1..Len(pxs) |-> AgentStep(i, pxs, pys, pos, canvas_size, spd, distance, w)])

\* the assert written len(weights) >= 3
WeightsAcceptedMin(w) == Len(w) >= 3

\* the assert extended with a sign check
WeightsAcceptedNonNegative(w) == Len(w) = 3 /\ \A k \in 1..3 : w[k] >= 0

\* assert len(weights) == 3
WeightsAccepted(w) == Len(w) = 3

(***************************************************************************)
(* pygame-demo.py                                                          *)
(***************************************************************************)
Init ==
    /\ \E p \in Populations :
         /\ xs = [k \in 1..Len(p) |-> p[k][1] * SCALE]
         /\ ys = [k \in 1..Len(p) |-> p[k][2] * SCALE]
         /\ os = [k \in 1..Len(p) |-> p[k][3]]
    /\ size \in SizeChoices
    /\ speed \in SpeedChoices
    /\ interaction_radius \in RadiusChoices
    /\ weights \in WeightChoices
    /\ done = FALSE
    /\ err = "none"
    /\ warnings = {}
    /\ frame = 0
    /\ vectors = <<>>
    /\ out = <<>>

\* one pass of the while loop: poll events, draw, update_locations
Frame ==
    /\ ~done
    /\ err = "none"
    /\ frame < MaxFrames
    /\ IF WeightsAccepted(weights)
       THEN \E r \in { update_locations(xs, ys, os, size, speed, interaction_radius, weights) } :
               /\ xs' = r[1]
               /\ ys' = r[2]
               /\ os' = r[3]
               /\ warnings' = r[4]
               /\ vectors' = r[5]
               /\ err' = err
               /\ frame' = frame + 1
       ELSE /\ err' = "AssertionError"
            /\ UNCHANGED <<xs, ys, os, warnings, vectors, frame>>
    /\ done' \in BOOLEAN
    /\ UNCHANGED <<size, speed, interaction_radius, weights, out>>

Next == Frame

Spec == Init /\ [][Next]_vars

(***************************************************************************)
(* The same step with the loop iterations taken in any order: iteration i  *)
(* is AgentStep(i, ...) on the lists update_locations was called with, its *)
(* result kept under index i, and the caller's assignment                  *)
(* xs, ys, os = update_locations(...) happens once every element is done.  *)
(***************************************************************************)
\* an iteration that reads the agents already processed in this step at
\* their new state
ProcessAgentObserving(i) ==
    /\ ~done
    /\ err = "none"
    /\ frame < MaxFrames
    /\ WeightsAccepted(weights)
    /\ i \notin DOMAIN out
    /\ out' = [j \in DOMAIN out \cup {i} |->
                 IF j = i
                 THEN AgentStep(i,
                                [k \in 1..N |-> IF k \in DOMAIN out THEN out[k][1] ELSE xs[k]],
                                [k \in 1..N |-> IF k \in DOMAIN out THEN out[k][2] ELSE ys[k]],
                                [k \in 1..N |-> IF k \in DOMAIN out THEN out[k][3] ELSE os[k]],
                                size, speed, interaction_radius, weights)
                 ELSE out[j]]
    /\ UNCHANGED <<xs, ys, os, size, speed, interaction_radius, weights, done, err,
                   warnings, frame, vectors>>

ProcessAgent(i) ==
    /\ ~done
    /\ err = "none"
    /\ frame < MaxFrames
    /\ WeightsAccepted(weights)
    /\ i \notin DOMAIN out
    /\ out' = [j \in DOMAIN out \cup {i} |->
                 IF j = i
                 THEN AgentStep(i, xs, ys, os, size, speed, interaction_radius, weights)
                 ELSE out[j]]
    /\ UNCHANGED <<xs, ys, os, size, speed, interaction_radius, weights, done, err,
                   warnings, frame, vectors>>

Commit ==
    /\ DOMAIN out = 1..N
    /\ \E r \in { Collect(out) } :
         /\ xs' = r[1]
         /\ ys' = r[2]
         /\ os' = r[3]
         /\ warnings' = r[4]
         /\ vectors' = r[5]
    /\ frame' = frame + 1
    /\ out' = <<>>
    /\ done' \in BOOLEAN
    /\ UNCHANGED <<size, speed, interaction_radius, weights, err>>

NextOrder == (\E i \in 1..N : ProcessAgent(i)) \/ Commit

\* the driver's own canvas proportions and weights that pass the assert
InitOrder ==
    /\ Init
    /\ size = <<30, 20>>
    /\ weights \in { <<1000, 100, 100>>, <<1000, 1000, 1000>> }

SpecOrder == InitOrder /\ [][NextOrder]_vars

(***************************************************************************)
(* Properties                                                              *)
(***************************************************************************)
Width == size[1] * SCALE
Height == size[2] * SCALE

Stepped == frame' = frame + 1

FinitePos(i) == IsFinite(xs[i]) /\ IsFinite(ys[i])

\* squared plane distance on the raw coordinates
Dist2(i, j) == (xs[j] - xs[i]) * (xs[j] - xs[i]) + (ys[j] - ys[i]) * (ys[j] - ys[i])

\* the agents other than idx strictly closer to idx than the radius
CloseSet(idx) ==
    { j \in 1..N \ {idx} :
        /\ FinitePos(idx) /\ FinitePos(j)
        /\ Dist2(idx, j) < interaction_radius * interaction_radius }

RECURSIVE Ascending(_)
Ascending(S) ==
    IF S = {} THEN <<>>
    ELSE LET m == CHOOSE m \in S : \A k \in S : m <= k
         IN <<m>> \o Ascending(S \ {m})

Pick(s, idxs) == [k \in 1..Len(idxs) |-> s[idxs[k]]]

RECURSIVE SumDx(_, _)
SumDx(S, i) ==
    IF S = {} THEN 0
    ELSE LET j == CHOOSE j \in S : TRUE
         IN (xs[j] - xs[i]) + SumDx(S \ {j}, i)

\* C1: after every step each position lies in [0, width) x [0, height).
PositionsInCanvas ==
    \A i \in 1..N : /\ 0 <= xs[i] /\ xs[i] < Width
                    /\ 0 <= ys[i] /\ ys[i] < Height

\* C2: find_neighbors returns exactly the agents j # idx at raw Euclidean
\* distance strictly below the radius, in ascending index order.
NeighborsExact ==
    \A idx \in 1..N :
        LET idxs == Ascending(CloseSet(idx))
        IN find_neighbors(idx, xs, ys, os, interaction_radius)
             = << Pick(xs, idxs), Pick(ys, idxs), Pick(os, idxs) >>

\* C2 witness: an agent at exactly the radius is left out, one at the same
\* coordinates is the only neighbor returned.
NeighborsExactWitness ==
    \E idx \in 1..N, j \in 1..N, k \in 1..N :
        /\ idx # j /\ idx # k /\ j # k
        /\ FinitePos(idx) /\ FinitePos(j) /\ FinitePos(k)
        /\ Dist2(idx, j) = interaction_radius * interaction_radius
        /\ xs[k] = xs[idx] /\ ys[k] = ys[idx]
        /\ find_neighbors(idx, xs, ys, os, interaction_radius) = << <<xs[k]>>, <<ys[k]>>, <<os[k]>> >>

\* C3: a call with a weights tuple of length other than 3 fails before any
\* agent is processed and leaves the population unchanged.
BadLengthRejected ==
    [][Len(weights) # 3 => (err' = "AssertionError" /\ UNCHANGED <<xs, ys, os, frame, vectors>>)]_vars

BadLengthWitness ==
    err = "AssertionError" /\ Len(weights) \in {2, 4} /\ frame = 0

\* C4 as stated: a 3-tuple of weights with a negative component is rejected
\* and no step is ever completed with it.
NegativeWeightRejected ==
    (Len(weights) = 3 /\ \E k \in 1..3 : weights[k] < 0) => frame = 0

\* C4 amended: every 3-tuple of weights, negative components included, is
\* accepted and the step returns the next population.
ThreeWeightsAccepted ==
    [][Len(weights) = 3 => (err' = "none" /\ Stepped /\ Len(xs') = Len(xs))]_vars

ThreeWeightsWitness ==
    /\ Len(weights) = 3 /\ \E k \in 1..3 : weights[k] < 0
    /\ frame >= 1 /\ err = "none"
    /\ N >= 2 /\ Len(vectors) = N

\* C5: no step of update_locations divides by zero.
NoDivisionByZero == warnings = {}

\* C6: an agent without neighbors keeps its heading direction, moves by
\* speed along it and lands on old position + displacement modulo the canvas.
SameDirection(a, b) ==
    /\ IsFinite(a) /\ IsFinite(b)
    /\ Abs(Cos(a) - Cos(b)) <= 5
    /\ Abs(Sin(a) - Sin(b)) <= 5

LoneAgentContinues ==
    [][Stepped =>
         \A i \in 1..N :
            (FinitePos(i) /\ CloseSet(i) = {}) =>
               LET d == Displacement(OrientationVector(os[i]), speed)
               IN /\ SameDirection(os'[i], os[i])
                  /\ xs'[i] = (xs[i] + d[1]) % Width
                  /\ ys'[i] = (ys[i] + d[2]) % Height]_vars

\* C7: a displacement with y-component exactly 0 gives the new heading 0,
\* whatever the sign of its x-component.
ZeroYGivesZeroHeading ==
    \A i \in 1..Len(vectors) : vectors[i][2] = 0 => os[i] = 0

ZeroYWitness ==
    \E i \in 1..Len(vectors) : vectors[i][2] = 0 /\ vectors[i][1] < 0 /\ os[i] = 0

\* C8: each step returns lists of the input's length, and element i of the
\* output is agent i's old position plus agent i's displacement, wrapped.
IndexAligned ==
    [][Stepped =>
         /\ Len(xs') = Len(xs) /\ Len(ys') = Len(xs) /\ Len(os') = Len(xs)
         /\ \A i \in 1..N :
               LET d == Displacement(CombinedVector(i, xs, ys, os, interaction_radius, weights), speed)
               IN /\ xs'[i] = FMod(FAdd(d[1], xs[i]), Width)
                  /\ ys'[i] = FMod(FAdd(d[2], ys[i]), Height)
                  /\ os'[i] = NewAngle(d)]_vars

IndexAlignedWitness ==
    /\ frame >= 2 /\ N >= 3
    /\ \E i \in 1..N, j \in 1..N : FinitePos(i) /\ FinitePos(j) /\ xs[i] # xs[j] /\ os[i] # os[j]

\* C9: while the agents of a step are processed, in any order, the input
\* lists are not written, and the step's result is update_locations of the
\* lists the step started from.
SnapshotOnly ==
    [][/\ (DOMAIN out' # {}) => UNCHANGED <<xs, ys, os>>
       /\ Stepped =>
            \E r \in { update_locations(xs, ys, os, size, speed, interaction_radius, weights) } :
               xs' = r[1] /\ ys' = r[2] /\ os' = r[3]]_vars

\* C9 witness: the last agent was processed first, it has neighbors that
\* are still to be processed, and an earlier step has already moved them.
SnapshotOnlyWitness ==
    /\ N >= 2 /\ frame >= 1
    /\ DOMAIN out = {N}
    /\ CloseSet(N) # {}

\* C10: with at least one neighbor both components of the separation vector
\* are minus the sum of (neighbor_x - self_x), the neighbors' y-coordinates
\* play no part, and a zero sum adds nothing to the combined vector.
SeparationUsesXOnly ==
    Len(weights) = 3 =>
      \A i \in 1..N :
         CloseSet(i) # {} =>
            LET nb == find_neighbors(i, xs, ys, os, interaction_radius)
                s == 0 - SumDx(CloseSet(i), i)
            IN /\ Separation(nb[1], nb[2], xs[i], ys[i]) = << s, s >>
               /\ Separation(nb[1], [k \in 1..Len(nb[2]) |-> 0], xs[i], 0) = << s, s >>
               /\ s = 0 =>
                    CombinedVector(i, xs, ys, os, interaction_radius, weights)
                      = CombinedVector(i, xs, ys, os, interaction_radius,
                                       << weights[1], weights[2], 0 >>)

SeparationWitness ==
    /\ Len(weights) = 3 /\ weights[3] > 0
    /\ \E i \in 1..N :
         /\ Cardinality(CloseSet(i)) >= 2
         /\ SumDx(CloseSet(i), i) = 0
         /\ \E j \in CloseSet(i) : xs[j] # xs[i] /\ ys[j] # ys[i]

====
